---------------------------- MODULE Spec2Model ----------------------------
(***************************************************************************)
(* ScholarVoice: the document segmenter (semanticSplit) and the segment    *)
(* pipeline / playback state machine of App.tsx.                           *)
(*                                                                         *)
(* A JavaScript string is modelled as a sequence of one-character strings, *)
(* so that length, trim, split, join and the header regular expression are *)
(* computed character by character as the source computes them.           *)
(***************************************************************************)
EXTENDS Integers, Sequences, FiniteSets, TLC

(***************************************************************************)
(* Strings                                                                 *)
(***************************************************************************)

\* The characters String.prototype.trim removes (those the model's alphabet has).
WhiteSpace == {" ", "\t", "\n", "\r", "\f"}

UpperChars == <<"A", "B", "C", "D", "E", "F", "G", "H", "I", "J", "K", "L", "M",
                "N", "O", "P", "Q", "R", "S", "T", "U", "V", "W", "X", "Y", "Z">>

LowerChars == <<"a", "b", "c", "d", "e", "f", "g", "h", "i", "j", "k", "l", "m",
                "n", "o", "p", "q", "r", "s", "t", "u", "v", "w", "x", "y", "z">>

\* Case folding of the regular expression's i flag.
Lower(c) ==
  IF \E k \in 1..26 : UpperChars[k] = c
    THEN LowerChars[CHOOSE k \in 1..26 : UpperChars[k] = c]
    ELSE c

SetMin(S) == CHOOSE x \in S : \A y \in S : x <= y

SetMax(S) == CHOOSE x \in S : \A y \in S : x >= y

\* The first position at or after k, and the last at or before k, of a
\* character of s outside the set skip (Len(s) + 1 and 0 when there is none).
RECURSIVE FirstOutside(_, _, _)
FirstOutside(s, skip, k) ==
  IF k > Len(s) \/ s[k] \notin skip THEN k ELSE FirstOutside(s, skip, k + 1)

RECURSIVE LastOutside(_, _, _)
LastOutside(s, skip, k) ==
  IF k < 1 \/ s[k] \notin skip THEN k ELSE LastOutside(s, skip, k - 1)

\* String.prototype.trim
Trim(s) == SubSeq(s, FirstOutside(s, WhiteSpace, 1), LastOutside(s, WhiteSpace, Len(s)))

\* String.prototype.split(sep) from position `from`: leftmost matches, not
\* overlapping; the pieces between them, empty ones kept.
RECURSIVE SplitFrom(_, _, _)
SplitFrom(s, sep, from) ==
  LET n == Len(s)
      m == Len(sep)
      hits == {k \in from..(n - m + 1) : \A j \in 1..m : s[k + j - 1] = sep[j]}
  IN  IF hits = {}
        THEN <<SubSeq(s, from, n)>>
        ELSE LET k == SetMin(hits)
             IN  <<SubSeq(s, from, k - 1)>> \o SplitFrom(s, sep, k + m)

Split(s, sep) == SplitFrom(s, sep, 1)

\* Array.prototype.join(sep)
RECURSIVE Join(_, _)
Join(parts, sep) ==
  IF Len(parts) = 0 THEN <<>>
  ELSE IF Len(parts) = 1 THEN parts[1]
  ELSE parts[1] \o sep \o Join(Tail(parts), sep)

DigitChars == <<"0", "1", "2", "3", "4", "5", "6", "7", "8", "9">>

\* Number to decimal string, as the template literal `${partCount}` does.
RECURSIVE NumToString(_)
NumToString(n) ==
  IF n < 10 THEN <<DigitChars[n + 1]>>
  ELSE NumToString(n \div 10) \o <<DigitChars[(n % 10) + 1]>>

(***************************************************************************)
(* semanticSplit                                                           *)
(***************************************************************************)

\* The alternatives of HEADER_REGEX.
HeaderKeywords == {
  <<"a", "b", "s", "t", "r", "a", "c", "t">>,
  <<"i", "n", "t", "r", "o", "d", "u", "c", "t", "i", "o", "n">>,
  <<"b", "a", "c", "k", "g", "r", "o", "u", "n", "d">>,
  <<"l", "i", "t", "e", "r", "a", "t", "u", "r", "e", " ", "r", "e", "v", "i", "e", "w">>,
  <<"m", "e", "t", "h", "o", "d", "s">>,
  <<"m", "e", "t", "h", "o", "d", "o", "l", "o", "g", "y">>,
  <<"r", "e", "s", "u", "l", "t", "s">>,
  <<"d", "i", "s", "c", "u", "s", "s", "i", "o", "n">>,
  <<"c", "o", "n", "c", "l", "u", "s", "i", "o", "n">>,
  <<"r", "e", "f", "e", "r", "e", "n", "c", "e", "s">>,
  <<"a", "p", "p", "e", "n", "d", "i", "x">> }

\* The keyword kw reads, case-insensitively, at position p of s.
KeywordAt(s, p, kw) ==
  /\ p + Len(kw) - 1 <= Len(s)
  /\ \A j \in 1..Len(kw) : Lower(s[p + j - 1]) = kw[j]

\* HEADER_REGEX.test(s): /(?:^|\n)(abstract|...)/i, no m flag: a keyword
\* at the start of the string or right after a line feed.
HEADER_REGEX_test(s) ==
  \E p \in 1..Len(s) :
    /\ p = 1 \/ s[p - 1] = "\n"
    /\ \E kw \in HeaderKeywords : KeywordAt(s, p, kw)

\* A paragraph shorter than this may be a header.
HeaderMaxLen == 100

isHeaderMut(trimmed) == Len(trimmed) <= HeaderMaxLen /\ HEADER_REGEX_test(trimmed)

isHeader(trimmed) == Len(trimmed) < HeaderMaxLen /\ HEADER_REGEX_test(trimmed)

StripNothing(s) == s

\* trimmed.replace(/[.:]+$/, ''): the trailing run of dots and colons removed.
StripTrailingPunct(s) == SubSeq(s, 1, LastOutside(s, {".", ":"}, Len(s)))

\* text.replace(/\r\n/g, '\n'): every carriage return followed by a line
\* feed is dropped.
cleanText(text) ==
  LET pairs == [k \in 1..Len(text) |->
                  <<text[k], IF k < Len(text) THEN text[k + 1] ELSE "">>]
      Kept(p) == ~(p[1] = "\r" /\ p[2] = "\n")
      kept == SelectSeq(pairs, Kept)
  IN  [k \in 1..Len(kept) |-> kept[k][1]]

rawParagraphs(text) == Split(cleanText(text), <<"\n", "\n">>)

StartOfPaper == <<"S", "t", "a", "r", "t", " ", "o", "f", " ", "P", "a", "p", "e", "r">>

\* The trimmed, non-empty paragraphs the scan visits, in order.
TrimmedParagraphs(text) ==
  LET raw == rawParagraphs(text)
      trimmedAll == [k \in 1..Len(raw) |-> Trim(raw[k])]
      NonEmpty(p) == p # <<>>
  IN  SelectSeq(trimmedAll, NonEmpty)

FlushSectionSentinel(sections, currentSectionTitle, currentSectionBuffer) ==
  IF Len(currentSectionBuffer) > 0
    THEN Append(sections, [title |-> StartOfPaper,
                           buffer |-> currentSectionBuffer,
                           content |-> Join(currentSectionBuffer, <<"\n", "\n">>)])
    ELSE sections

FlushSectionAlways(sections, currentSectionTitle, currentSectionBuffer) ==
  Append(sections, [title |-> currentSectionTitle,
                    buffer |-> currentSectionBuffer,
                    content |-> Join(currentSectionBuffer, <<"\n", "\n">>)])

\* if (currentSectionBuffer.length > 0) sections.push({ title, content }).
\* The record keeps the buffer the content was joined from.
FlushSection(sections, currentSectionTitle, currentSectionBuffer) ==
  IF Len(currentSectionBuffer) > 0
    THEN Append(sections, [title |-> currentSectionTitle,
                           buffer |-> currentSectionBuffer,
                           content |-> Join(currentSectionBuffer, <<"\n", "\n">>)])
    ELSE sections

\* The paragraph scan, then the flush of the last section.
RECURSIVE ScanParagraphs(_, _, _, _, _)
ScanParagraphs(paras, k, currentSectionTitle, currentSectionBuffer, sections) ==
  IF k > Len(paras)
    THEN FlushSection(sections, currentSectionTitle, currentSectionBuffer)
    ELSE LET trimmed == Trim(paras[k])
         IN  IF trimmed = <<>>
               THEN ScanParagraphs(paras, k + 1, currentSectionTitle,
                                   currentSectionBuffer, sections)
             ELSE IF isHeader(trimmed)
               THEN ScanParagraphs(paras, k + 1, StripTrailingPunct(trimmed),
                      <<trimmed>>,
                      FlushSection(sections, currentSectionTitle,
                                   currentSectionBuffer))
             ELSE ScanParagraphs(paras, k + 1, currentSectionTitle,
                                 Append(currentSectionBuffer, trimmed), sections)

\* sections: { title, content } in document order.
Sections(text) ==
  ScanParagraphs(rawParagraphs(text), 1, StartOfPaper, <<>>, <<>>)

PartSuffix(partCount) ==
  <<" ", "(", "P", "a", "r", "t", " ">> \o NumToString(partCount) \o <<")">>

\* `${section.title} (Part ${partCount})`
PartTitle(title, partCount) == title \o PartSuffix(partCount)

FinalTitleBare(title, partCount) == title

\* partCount > 1 ? `${section.title} (Part ${partCount})` : section.title
FinalTitle(title, partCount) ==
  IF partCount > 1 THEN PartTitle(title, partCount) ELSE title

\* The flush test of the greedy loop.
Overflows(buffer, p, targetChars) ==
  Len(buffer) + Len(p) > targetChars /\ Len(buffer) > 0

GreedyStepDropLine(st, p, title, targetChars) ==
  IF Overflows(st.buffer, p, targetChars)
    THEN [chunks |-> Append(st.chunks,
                       [title |-> PartTitle(title, st.partCount),
                        text |-> Trim(st.buffer)]),
          buffer |-> <<>>,
          partCount |-> st.partCount + 1]
    ELSE [st EXCEPT !.buffer = st.buffer \o <<"\n">> \o p]

\* One iteration of the greedy loop on line p.
GreedyStep(st, p, title, targetChars) ==
  IF Overflows(st.buffer, p, targetChars)
    THEN [chunks |-> Append(st.chunks,
                       [title |-> PartTitle(title, st.partCount),
                        text |-> Trim(st.buffer)]),
          buffer |-> p,
          partCount |-> st.partCount + 1]
    ELSE [st EXCEPT !.buffer = st.buffer \o <<"\n">> \o p]

\* The greedy loop over the lines of one large section, then the flush of
\* the remaining buffer.
RECURSIVE GreedyLoop(_, _, _, _, _)
GreedyLoop(title, paras, k, st, targetChars) ==
  IF k > Len(paras)
    THEN IF Trim(st.buffer) # <<>>
           THEN Append(st.chunks, [title |-> FinalTitle(title, st.partCount),
                                   text |-> Trim(st.buffer)])
           ELSE st.chunks
    ELSE GreedyLoop(title, paras, k + 1,
                    GreedyStep(st, paras[k], title, targetChars), targetChars)

\* Step 2 for one section.
SectionChunks(section, targetChars) ==
  IF Len(section.content) <= targetChars
    THEN <<[title |-> section.title, text |-> section.content]>>
    ELSE GreedyLoop(section.title, Split(section.content, <<"\n">>), 1,
                    [chunks |-> <<>>, buffer |-> <<>>, partCount |-> 1],
                    targetChars)

\* The sequences of a sequence of sequences, one after the other.
RECURSIVE Flatten(_)
Flatten(seqs) ==
  IF Len(seqs) = 0 THEN <<>> ELSE Head(seqs) \o Flatten(Tail(seqs))

\* The chunks of each section, in section order.
ChunksBySection(sections, targetChars) ==
  [k \in 1..Len(sections) |-> SectionChunks(sections[k], targetChars)]

\* What one call computes: the sections of Step 1, the chunks Step 2 makes of
\* each, and finalChunks.
SplitRun(text, targetChars) ==
  LET secs == Sections(text)
      bySection == ChunksBySection(secs, targetChars)
  IN  [sections |-> secs, sectionChunks |-> bySection,
       finalChunks |-> Flatten(bySection)]

semanticSplit(text, targetChars) == SplitRun(text, targetChars).finalChunks

(***************************************************************************)
(* The segmenter on bounded documents                                      *)
(***************************************************************************)

\* text, targetChars: the arguments; sections, sectionChunks: what Step 1 and
\* Step 2 produced; finalChunks: the value returned.
VARIABLES text, nPieces, targetChars, sections, sectionChunks, finalChunks,
          splitDone

splitVars == <<text, nPieces, targetChars, sections, sectionChunks, finalChunks,
               splitDone>>

\* The state of App (useState), and the calls of handleProcess under way:
\* runs[r] is call r's position and its local variables, nextRun the number
\* of the next call.
VARIABLES selectedFile, mode, segments, currentPlayingIndex, isProcessing,
          progress, podcastScript, podcastAudio, runs, nextRun

\* The object URLs made by URL.createObjectURL and not revoked.
VARIABLE objectURLs

\* The audio elements of the cards that are playing: <<idx, by>> when the
\* element of card idx plays, started by the effect of SegmentCard
\* ("effect") or by the listener with the element's controls ("listener").
VARIABLE playing

\* The safety limit of processLiteralMode on its own: extracted is the text
\* extractRawText resolved with, limited is rawText as it is handed to
\* semanticSplit, warned tells whether the truncation was logged, limitDone
\* that the test of the limit has run.
VARIABLES extracted, limited, warned, limitDone

limitVars == <<extracted, limited, warned, limitDone>>

appVars == <<selectedFile, mode, segments, currentPlayingIndex, isProcessing,
             progress, podcastScript, podcastAudio, runs, nextRun, objectURLs,
             playing>>

vars == <<splitVars, appVars, limitVars>>

MaxRuns == 2

\* An optional field that is not set; no object URL; progress null.
Undefined == "undefined"

NoUrl == <<>>

NoProgress == <<>>

IdleRun ==
  [pc |-> "idle", mode |-> "LITERAL", initialSegments |-> <<>>, i |-> 0,
   translated |-> Undefined, log |-> {}]

\* No text has been extracted.
LimitIdle ==
  /\ extracted = <<>>
  /\ limited = <<>>
  /\ warned = FALSE
  /\ limitDone = FALSE

\* The state App is constructed with.
AppInit ==
  /\ selectedFile = "null"
  /\ mode = "LITERAL"
  /\ segments = <<>>
  /\ currentPlayingIndex = -1
  /\ isProcessing = FALSE
  /\ progress = NoProgress
  /\ podcastScript = ""
  /\ podcastAudio = NoUrl
  /\ runs = [r \in 1..MaxRuns |-> IdleRun]
  /\ nextRun = 1
  /\ objectURLs = {}
  /\ playing = {}

ExampleDoc ==
  <<"A", "b", "s", "t", "r", "a", "c", "t">> \o <<"\n", "\n">>
    \o <<"F", "o", "o", " ", "b", "a", "r", ".">> \o <<"\n", "\n">>
    \o <<"I", "n", "t", "r", "o", "d", "u", "c", "t", "i", "o", "n">> \o <<"\n", "\n">>
    \o <<"B", "a", "z", " ", "q", "u", "x", ".">>

\* With "Abstract" a paragraph of exactly HeaderMaxLen characters, with
\* "METHODS" one of HeaderMaxLen - 1.
FillerLen == 92

Filler == [k \in 1..FillerLen |-> "x"]

Pieces == {
  <<"a", ".">>,
  <<"\n">>,
  <<" ">>,
  <<"\r">>,
  <<"A", "b", "s", "t", "r", "a", "c", "t">>,
  <<"M", "E", "T", "H", "O", "D", "S">>,
  Filler }

TwoLines == <<"a", ".", "\n", "a", ".", "\n">>

\* A body paragraph, then a header paragraph with trailing punctuation.
HeaderSeed == <<"a", ".", "\n", "\n">> \o <<"M", "E", "T", "H", "O", "D", "S", ":">>
                \o <<"\n", "\n">>

Seeds == {<<>>, ExampleDoc, TwoLines, HeaderSeed}

MaxPieces == 3

MaxDocLen == 120

DefaultTarget == 3500

Targets == {0, 2, 4, DefaultTarget}

InitSplit ==
  /\ text \in Seeds
  /\ nPieces = 0
  /\ targetChars = DefaultTarget
  /\ sections = <<>>
  /\ sectionChunks = <<>>
  /\ finalChunks = <<>>
  /\ splitDone = FALSE
  /\ AppInit
  /\ LimitIdle

\* The document grows by one piece.
AppendPiece ==
  /\ ~splitDone
  /\ nPieces < MaxPieces
  /\ \E p \in Pieces :
       /\ Len(text) + Len(p) <= MaxDocLen
       /\ text' = text \o p
  /\ nPieces' = nPieces + 1
  /\ UNCHANGED <<targetChars, sections, sectionChunks, finalChunks, splitDone>>
  /\ UNCHANGED appVars
  /\ UNCHANGED limitVars

\* A call semanticSplit(text, t).
CallSemanticSplit ==
  /\ ~splitDone
  /\ \E t \in Targets :
       /\ targetChars' = t
       /\ LET run == SplitRun(text, t)
          IN  /\ sections' = run.sections
              /\ sectionChunks' = run.sectionChunks
              /\ finalChunks' = run.finalChunks
  /\ splitDone' = TRUE
  /\ UNCHANGED <<text, nPieces>>
  /\ UNCHANGED appVars
  /\ UNCHANGED limitVars

NextSplit == AppendPiece \/ CallSemanticSplit

SpecSplit == InitSplit /\ [][NextSplit]_vars

(***************************************************************************)
(* The pipeline and the playback pointer (App)                             *)
(***************************************************************************)

\* The safety limit of processLiteralMode.
LIMIT == 50000

\* if (rawText.length > LIMIT): the warning is logged and the text truncated.
ExceedsLimit(rawText) == Len(rawText) > LIMIT

\* The truncation keeping one character too few: substring(0, LIMIT - 1).
TruncateShort(rawText) ==
  IF Len(rawText) > LIMIT THEN SubSeq(rawText, 1, LIMIT - 1) ELSE rawText

\* if (rawText.length > LIMIT) rawText = rawText.substring(0, LIMIT)
Truncate(rawText) ==
  IF Len(rawText) > LIMIT THEN SubSeq(rawText, 1, LIMIT) ELSE rawText

\* The texts extractRawText may resolve with (never the empty text, on which
\* it throws): one of two chunks, one of no chunk.
BlankDoc == <<" ">>

ExtractedTexts == {ExampleDoc, BlankDoc}

\* const textChunks = semanticSplit(rawText, 3500), rawText truncated, for
\* each text extractRawText may resolve with.
TextChunksOf ==
  [rawText \in ExtractedTexts |-> semanticSplit(Truncate(rawText), DefaultTarget)]

\* The messages of the errors the collaborators throw.
TranslateErrors == {"translation failed"}

SpeechErrors == {"No audio returned", "invalid typed array length"}

\* textChunks.map((chunk, idx) => ({ id: `seg-${idx}`, ..., status: 'pending' }))
InitialSegments(textChunks) ==
  [k \in 1..Len(textChunks) |->
     [id |-> k - 1, title |-> textChunks[k].title,
      originalText |-> textChunks[k].text, translatedText |-> Undefined,
      audioUrl |-> NoUrl, status |-> "pending", error |-> Undefined]]

\* prev.map(s => s.id === segId ? { ...s, status: 'processing' } : s)
MarkProcessing(prev, segId) ==
  [k \in 1..Len(prev) |->
     IF prev[k].id = segId THEN [prev[k] EXCEPT !.status = "processing"]
     ELSE prev[k]]

\* prev.map(s => s.id === segId ? { ...s, translatedText: translated } : s)
MarkTranslated(prev, segId, translated) ==
  [k \in 1..Len(prev) |->
     IF prev[k].id = segId THEN [prev[k] EXCEPT !.translatedText = translated]
     ELSE prev[k]]

\* prev.map(s => s.id === segId ? { ...s, status: 'success', audioUrl } : s)
MarkSuccess(prev, segId, url) ==
  [k \in 1..Len(prev) |->
     IF prev[k].id = segId
       THEN [prev[k] EXCEPT !.status = "success", !.audioUrl = url]
     ELSE prev[k]]

\* prev.map(s => s.id === segId ? { ...s, status: 'error', error: err.message } : s)
MarkError(prev, segId, message) ==
  [k \in 1..Len(prev) |->
     IF prev[k].id = segId
       THEN [prev[k] EXCEPT !.status = "error", !.error = message]
     ELSE prev[k]]

\* A run that has returned; log is the lines its last step logged.
DoneRun(run, lastLogs) ==
  [IdleRun EXCEPT !.pc = "done", !.mode = run.mode, !.log = lastLogs]

\* LoopHead leaving the loop one segment early: i < length - 1.
LoopHeadSkipLast(run, i, prev, lastLog) ==
  IF i < Len(run.initialSegments) - 1
    THEN [segments |-> MarkProcessing(prev, run.initialSegments[i + 1].id),
          progress |-> <<[current |-> i + 1, total |-> Len(run.initialSegments)]>>,
          isProcessing |-> isProcessing,
          run |-> [run EXCEPT !.pc = "translateChunk", !.i = i,
                              !.translated = Undefined, !.log = {lastLog}]]
    ELSE [segments |-> prev,
          progress |-> NoProgress,
          isProcessing |-> FALSE,
          run |-> DoneRun(run, {lastLog, "All segments processed"})]

\* LoopHead reporting the index i of the segment as the progress, not i + 1.
LoopHeadZeroBased(run, i, prev, lastLog) ==
  IF i < Len(run.initialSegments)
    THEN [segments |-> MarkProcessing(prev, run.initialSegments[i + 1].id),
          progress |-> <<[current |-> i, total |-> Len(run.initialSegments)]>>,
          isProcessing |-> isProcessing,
          run |-> [run EXCEPT !.pc = "translateChunk", !.i = i,
                              !.translated = Undefined, !.log = {lastLog}]]
    ELSE [segments |-> prev,
          progress |-> NoProgress,
          isProcessing |-> FALSE,
          run |-> DoneRun(run, {lastLog, "All segments processed"})]

\* The loop of processLiteralMode from the test i < initialSegments.length up
\* to the await of translateChunk, or, past the last segment, the completion
\* log and the finally block. prev is the store as the steps before left it.
LoopHead(run, i, prev, lastLog) ==
  IF i < Len(run.initialSegments)
    THEN [segments |-> MarkProcessing(prev, run.initialSegments[i + 1].id),
          progress |-> <<[current |-> i + 1, total |-> Len(run.initialSegments)]>>,
          isProcessing |-> isProcessing,
          run |-> [run EXCEPT !.pc = "translateChunk", !.i = i,
                              !.translated = Undefined, !.log = {lastLog}]]
    ELSE [segments |-> prev,
          progress |-> NoProgress,
          isProcessing |-> FALSE,
          run |-> DoneRun(run, {lastLog, "All segments processed"})]

\* The src of the audio element of card idx when the list shows segs in
\* mode m; NoUrl when the card or its audio element is not rendered.
AudioOf(m, segs, idx) ==
  IF m = "LITERAL" /\ idx < Len(segs) THEN segs[idx + 1].audioUrl ELSE NoUrl

\* The effect of card idx runs after this step's render: the card is
\* mounted by it, or one of the dependencies shouldPlay, segment.audioUrl
\* has changed.
EffectRuns(idx) ==
  \/ ~(mode = "LITERAL" /\ idx < Len(segments))
  \/ (idx = currentPlayingIndex) # (idx = currentPlayingIndex')
  \/ segments[idx + 1].audioUrl # segments'[idx + 1].audioUrl

\* The render that follows a step, and the effects of the cards: an audio
\* element goes on playing while it stays rendered with the same src (the
\* elements in started begin to play, those in stopped have ended), and the
\* effect plays the element of the card that should play.
Render(started, stopped) ==
  LET byListener == {<<idx, "listener">> : idx \in started \ {p[1] : p \in playing}}
      still == {p \in playing \cup byListener :
                  /\ p[1] \notin stopped
                  /\ AudioOf(mode', segments', p[1]) # NoUrl
                  /\ AudioOf(mode', segments', p[1]) = AudioOf(mode, segments, p[1])}
      cards == IF mode' = "LITERAL" THEN 0..(Len(segments') - 1) ELSE {}
      byEffect == {idx \in cards :
                     /\ segments'[idx + 1].audioUrl # NoUrl
                     /\ idx = currentPlayingIndex'
                     /\ EffectRuns(idx)
                     /\ idx \notin {p[1] : p \in still}}
  IN  playing' = still \cup {<<idx, "effect">> : idx \in byEffect}

\* handleFile: a file is dropped or chosen, or Remove is clicked.
HandleFile ==
  /\ selectedFile' = "File"
  /\ segments' = <<>>
  /\ currentPlayingIndex' = -1
  /\ podcastScript' = ""
  /\ podcastAudio' = NoUrl
  /\ UNCHANGED <<mode, isProcessing, progress, runs, nextRun>>
  /\ UNCHANGED objectURLs
  /\ UNCHANGED splitVars
  /\ UNCHANGED limitVars
  /\ Render({}, {})

\* handleProcess up to await fileToBase64: a click on one of the two buttons,
\* which are disabled while isProcessing or without a file.
HandleProcess(selectedMode) ==
  /\ ~(isProcessing \/ selectedFile = "null")
  /\ nextRun <= MaxRuns
  /\ mode' = selectedMode
  /\ runs' = [runs EXCEPT ![nextRun] =
                [IdleRun EXCEPT !.pc = "fileToBase64", !.mode = selectedMode]]
  /\ nextRun' = nextRun + 1
  /\ UNCHANGED <<selectedFile, segments, currentPlayingIndex, isProcessing,
                 progress, podcastScript, podcastAudio>>
  /\ UNCHANGED objectURLs
  /\ UNCHANGED splitVars
  /\ UNCHANGED limitVars
  /\ Render({}, {})

\* fileToBase64 resolves: processLiteralMode up to await extractRawText.
StartLiteral(r) ==
  /\ runs[r].pc = "fileToBase64"
  /\ runs[r].mode = "LITERAL"
  /\ segments' = <<>>
  /\ currentPlayingIndex' = -1
  /\ isProcessing' = TRUE
  /\ runs' = [runs EXCEPT ![r].pc = "extractRawText", ![r].log = {"Step 1"}]
  /\ UNCHANGED <<selectedFile, mode, progress, podcastScript, podcastAudio, nextRun>>
  /\ UNCHANGED objectURLs
  /\ UNCHANGED splitVars
  /\ UNCHANGED limitVars
  /\ Render({}, {})

\* extractRawText resolves: truncation, semanticSplit, the initial segments,
\* and the loop up to its first await.
ExtractResolved(r) ==
  /\ runs[r].pc = "extractRawText"
  /\ \E rawText \in ExtractedTexts :
       LET textChunks == TextChunksOf[rawText]
           initialSegments == InitialSegments(textChunks)
           head == LoopHead([runs[r] EXCEPT !.initialSegments = initialSegments],
                            0, initialSegments, "Created segments")
           warning == IF ExceedsLimit(rawText) THEN {"Truncating"} ELSE {}
       IN  /\ segments' = head.segments
           /\ progress' = head.progress
           /\ isProcessing' = head.isProcessing
           /\ runs' = [runs EXCEPT ![r] = [head.run EXCEPT !.log = @ \cup warning]]
  /\ UNCHANGED <<selectedFile, mode, currentPlayingIndex, podcastScript,
                 podcastAudio, nextRun>>
  /\ UNCHANGED objectURLs
  /\ UNCHANGED splitVars
  /\ UNCHANGED limitVars
  /\ Render({}, {})

\* extractRawText throws: the outer catch and the finally block.
ExtractRejected(r) ==
  /\ runs[r].pc = "extractRawText"
  /\ isProcessing' = FALSE
  /\ progress' = NoProgress
  /\ runs' = [runs EXCEPT ![r] = DoneRun(runs[r], {"Critical Error"})]
  /\ UNCHANGED <<selectedFile, mode, segments, currentPlayingIndex,
                 podcastScript, podcastAudio, nextRun>>
  /\ UNCHANGED objectURLs
  /\ UNCHANGED splitVars
  /\ UNCHANGED limitVars
  /\ Render({}, {})

\* translateChunk resolves: the translation is stored, generateSpeech awaited.
TranslateResolved(r) ==
  /\ runs[r].pc = "translateChunk"
  /\ LET segId == runs[r].initialSegments[runs[r].i + 1].id
     IN  segments' = MarkTranslated(segments, segId, "translated")
  /\ runs' = [runs EXCEPT ![r].pc = "generateSpeech",
                          ![r].translated = "translated", ![r].log = {}]
  /\ UNCHANGED <<selectedFile, mode, currentPlayingIndex, isProcessing, progress,
                 podcastScript, podcastAudio, nextRun>>
  /\ UNCHANGED objectURLs
  /\ UNCHANGED splitVars
  /\ UNCHANGED limitVars
  /\ Render({}, {})

\* translateChunk throws: the inner catch, then the loop goes on.
TranslateRejected(r) ==
  /\ runs[r].pc = "translateChunk"
  /\ \E message \in TranslateErrors :
       LET segId == runs[r].initialSegments[runs[r].i + 1].id
           head == LoopHead(runs[r], runs[r].i + 1,
                            MarkError(segments, segId, message), "Failed")
       IN  /\ segments' = head.segments
           /\ progress' = head.progress
           /\ isProcessing' = head.isProcessing
           /\ runs' = [runs EXCEPT ![r] = head.run]
  /\ UNCHANGED <<selectedFile, mode, currentPlayingIndex, podcastScript,
                 podcastAudio, nextRun>>
  /\ UNCHANGED objectURLs
  /\ UNCHANGED splitVars
  /\ UNCHANGED limitVars
  /\ Render({}, {})

\* The auto-play of SpeechResolved taken for any segment that is ready while
\* nothing is played, instead of for the first segment only.
SpeechResolvedAnyFirst(r) ==
  /\ runs[r].pc = "generateSpeech"
  /\ LET segId == runs[r].initialSegments[runs[r].i + 1].id
         head == LoopHead(runs[r], runs[r].i + 1,
                          MarkSuccess(segments, segId, <<r, runs[r].i>>), "Ready")
     IN  /\ segments' = head.segments
         /\ progress' = head.progress
         /\ isProcessing' = head.isProcessing
         /\ runs' = [runs EXCEPT ![r] = head.run]
  /\ currentPlayingIndex' = IF currentPlayingIndex = -1 THEN runs[r].i
                            ELSE currentPlayingIndex
  /\ UNCHANGED <<selectedFile, mode, podcastScript, podcastAudio, nextRun>>
  /\ objectURLs' = objectURLs \cup {<<r, runs[r].i>>}
  /\ UNCHANGED splitVars
  /\ UNCHANGED limitVars
  /\ Render({}, {})

\* generateSpeech resolves and the samples are converted: the segment is a
\* success with its object URL, the first segment becomes the one played,
\* then the loop goes on.
SpeechResolved(r) ==
  /\ runs[r].pc = "generateSpeech"
  /\ LET segId == runs[r].initialSegments[runs[r].i + 1].id
         head == LoopHead(runs[r], runs[r].i + 1,
                          MarkSuccess(segments, segId, <<r, runs[r].i>>), "Ready")
     IN  /\ segments' = head.segments
         /\ progress' = head.progress
         /\ isProcessing' = head.isProcessing
         /\ runs' = [runs EXCEPT ![r] = head.run]
  /\ currentPlayingIndex' = IF runs[r].i = 0 THEN 0 ELSE currentPlayingIndex
  /\ UNCHANGED <<selectedFile, mode, podcastScript, podcastAudio, nextRun>>
  /\ objectURLs' = objectURLs \cup {<<r, runs[r].i>>}
  /\ UNCHANGED splitVars
  /\ UNCHANGED limitVars
  /\ Render({}, {})

\* generateSpeech throws, or the conversion of its samples does: the inner
\* catch, then the loop goes on.
SpeechRejected(r) ==
  /\ runs[r].pc = "generateSpeech"
  /\ \E message \in SpeechErrors :
       LET segId == runs[r].initialSegments[runs[r].i + 1].id
           head == LoopHead(runs[r], runs[r].i + 1,
                            MarkError(segments, segId, message), "Failed")
       IN  /\ segments' = head.segments
           /\ progress' = head.progress
           /\ isProcessing' = head.isProcessing
           /\ runs' = [runs EXCEPT ![r] = head.run]
  /\ UNCHANGED <<selectedFile, mode, currentPlayingIndex, podcastScript,
                 podcastAudio, nextRun>>
  /\ UNCHANGED objectURLs
  /\ UNCHANGED splitVars
  /\ UNCHANGED limitVars
  /\ Render({}, {})

\* fileToBase64 resolves: processPodcastMode up to await generatePodcastScript.
StartPodcast(r) ==
  /\ runs[r].pc = "fileToBase64"
  /\ runs[r].mode = "PODCAST"
  /\ isProcessing' = TRUE
  /\ podcastScript' = ""
  /\ podcastAudio' = NoUrl
  /\ runs' = [runs EXCEPT ![r].pc = "generatePodcastScript",
                          ![r].log = {"Generating Podcast Script"}]
  /\ UNCHANGED <<selectedFile, mode, segments, currentPlayingIndex, progress,
                 nextRun>>
  /\ UNCHANGED objectURLs
  /\ UNCHANGED splitVars
  /\ UNCHANGED limitVars
  /\ Render({}, {})

\* generatePodcastScript resolves: the script is stored, generateSpeech awaited.
ScriptResolved(r) ==
  /\ runs[r].pc = "generatePodcastScript"
  /\ podcastScript' = "script"
  /\ runs' = [runs EXCEPT ![r].pc = "podcastSpeech",
                          ![r].log = {"Synthesizing Podcast Audio"}]
  /\ UNCHANGED <<selectedFile, mode, segments, currentPlayingIndex, isProcessing,
                 progress, podcastAudio, nextRun>>
  /\ UNCHANGED objectURLs
  /\ UNCHANGED splitVars
  /\ UNCHANGED limitVars
  /\ Render({}, {})

\* generateSpeech resolves in processPodcastMode.
PodcastSpeechResolved(r) ==
  /\ runs[r].pc = "podcastSpeech"
  /\ podcastAudio' = <<r, -1>>
  /\ isProcessing' = FALSE
  /\ runs' = [runs EXCEPT ![r] = DoneRun(runs[r], {"Podcast Ready"})]
  /\ UNCHANGED <<selectedFile, mode, segments, currentPlayingIndex, progress,
                 podcastScript, nextRun>>
  /\ objectURLs' = objectURLs \cup {<<r, -1>>}
  /\ UNCHANGED splitVars
  /\ UNCHANGED limitVars
  /\ Render({}, {})

\* generatePodcastScript or generateSpeech throws in processPodcastMode.
PodcastRejected(r) ==
  /\ runs[r].pc \in {"generatePodcastScript", "podcastSpeech"}
  /\ isProcessing' = FALSE
  /\ runs' = [runs EXCEPT ![r] = DoneRun(runs[r], {"Podcast Error"})]
  /\ UNCHANGED <<selectedFile, mode, segments, currentPlayingIndex, progress,
                 podcastScript, podcastAudio, nextRun>>
  /\ UNCHANGED objectURLs
  /\ UNCHANGED splitVars
  /\ UNCHANGED limitVars
  /\ Render({}, {})

\* The cards whose audio element is rendered: the segment list is shown in
\* literal mode, the element when the segment has an audioUrl.
HasAudio(idx) ==
  /\ mode = "LITERAL"
  /\ idx < Len(segments)
  /\ segments[idx + 1].audioUrl # NoUrl

\* A select wired to the card instead of to its audio element: any segment
\* of the list can be selected.
OnPlayAnyCard(idx) ==
  /\ mode = "LITERAL"
  /\ idx < Len(segments)
  /\ currentPlayingIndex' = idx
  /\ UNCHANGED <<selectedFile, mode, segments, isProcessing, progress,
                 podcastScript, podcastAudio, runs, nextRun>>
  /\ UNCHANGED objectURLs
  /\ UNCHANGED splitVars
  /\ UNCHANGED limitVars
  /\ Render({idx}, {})

\* onPlay of card idx: its audio starts playing.
OnPlay(idx) ==
  /\ HasAudio(idx)
  /\ currentPlayingIndex' = idx
  /\ UNCHANGED <<selectedFile, mode, segments, isProcessing, progress,
                 podcastScript, podcastAudio, runs, nextRun>>
  /\ UNCHANGED objectURLs
  /\ UNCHANGED splitVars
  /\ UNCHANGED limitVars
  /\ Render({idx}, {})

\* handleSegmentEnded stopping at a segment that is not ready instead of
\* moving to it.
HandleSegmentEndedStop(index) ==
  /\ HasAudio(index)
  /\ currentPlayingIndex' =
       IF index + 1 < Len(segments)
         THEN IF segments[index + 2].status = "success" THEN index + 1
              ELSE -1
         ELSE -1
  /\ UNCHANGED <<selectedFile, mode, segments, isProcessing, progress,
                 podcastScript, podcastAudio, runs, nextRun>>
  /\ UNCHANGED objectURLs
  /\ UNCHANGED splitVars
  /\ UNCHANGED limitVars
  /\ Render({}, {index})

\* handleSegmentEnded(index): the audio of card index has played to its end.
HandleSegmentEnded(index) ==
  /\ HasAudio(index)
  /\ currentPlayingIndex' =
       IF index + 1 < Len(segments)
         THEN IF segments[index + 2].status = "success" THEN index + 1
              ELSE index + 1
         ELSE -1
  /\ UNCHANGED <<selectedFile, mode, segments, isProcessing, progress,
                 podcastScript, podcastAudio, runs, nextRun>>
  /\ UNCHANGED objectURLs
  /\ UNCHANGED splitVars
  /\ UNCHANGED limitVars
  /\ Render({}, {index})

\* The largest number of segments a run creates.
MaxSegments == 2

Init ==
  /\ AppInit
  /\ LimitIdle
  /\ text = <<>>
  /\ nPieces = 0
  /\ targetChars = DefaultTarget
  /\ sections = <<>>
  /\ sectionChunks = <<>>
  /\ finalChunks = <<>>
  /\ splitDone = FALSE

Next ==
  \/ HandleFile
  \/ \E selectedMode \in {"LITERAL", "PODCAST"} : HandleProcess(selectedMode)
  \/ \E r \in 1..MaxRuns :
       \/ StartLiteral(r)
       \/ ExtractResolved(r)
       \/ ExtractRejected(r)
       \/ TranslateResolved(r)
       \/ TranslateRejected(r)
       \/ SpeechResolved(r)
       \/ SpeechRejected(r)
       \/ StartPodcast(r)
       \/ ScriptResolved(r)
       \/ PodcastSpeechResolved(r)
       \/ PodcastRejected(r)
  \/ \E idx \in 0..(MaxSegments - 1) : OnPlay(idx) \/ HandleSegmentEnded(idx)

Spec == Init /\ [][Next]_vars

\* Every promise a run awaits is settled in the end: fileToBase64, and each
\* call of a collaborator, resolves or rejects.
Settles(r) ==
  /\ WF_vars(StartLiteral(r) \/ StartPodcast(r))
  /\ WF_vars(ExtractResolved(r) \/ ExtractRejected(r))
  /\ WF_vars(TranslateResolved(r) \/ TranslateRejected(r))
  /\ WF_vars(SpeechResolved(r) \/ SpeechRejected(r))
  /\ WF_vars(ScriptResolved(r) \/ PodcastSpeechResolved(r) \/ PodcastRejected(r))

SpecLive == Spec /\ \A r \in 1..MaxRuns : Settles(r)

(***************************************************************************)
(* The safety limit on texts of bounded lengths                            *)
(***************************************************************************)

\* How far below and above LIMIT the lengths of the texts go.
MaxOver == 60

\* The lengths of the texts: the shortest ones (extractRawText throws on the
\* empty text), those around LIMIT, and the 60,000 characters of the
\* truncation scenario.
RawLengths == {1, 2, 60000} \cup ((LIMIT - MaxOver)..(LIMIT + MaxOver))

LimitAlphabet == <<"a", "b", "c", " ", "\n">>

\* A text of n characters, not periodic in any length the limit cuts at.
MakeText(n) == [k \in 1..n |-> LimitAlphabet[(((k % 7) * (k % 11)) % 5) + 1]]

InitLimit ==
  /\ AppInit
  /\ text = <<>>
  /\ nPieces = 0
  /\ targetChars = DefaultTarget
  /\ sections = <<>>
  /\ sectionChunks = <<>>
  /\ finalChunks = <<>>
  /\ splitDone = FALSE
  /\ extracted \in {MakeText(n) : n \in RawLengths}
  /\ limited = <<>>
  /\ warned = FALSE
  /\ limitDone = FALSE

\* processLiteralMode from the resolution of extractRawText up to the call
\* of semanticSplit: the test of the limit, the warning, the truncation.
ApplyLimit ==
  /\ ~limitDone
  /\ warned' = ExceedsLimit(extracted)
  /\ limited' = Truncate(extracted)
  /\ limitDone' = TRUE
  /\ UNCHANGED extracted
  /\ UNCHANGED splitVars
  /\ UNCHANGED appVars

NextLimit == ApplyLimit

SpecLimit == InitLimit /\ [][NextLimit]_vars

(***************************************************************************)
(* Properties of the segmenter                                             *)
(***************************************************************************)

IsPrefix(a, b) == Len(a) <= Len(b) /\ SubSeq(b, 1, Len(a)) = a

Chars(s) == {s[k] : k \in 1..Len(s)}

\* The lines of s that hold a non-whitespace character, each without its
\* leading and trailing whitespace.
NonBlankLines(s) ==
  LET lines == Split(s, <<"\n">>)
      trimmedLines == [k \in 1..Len(lines) |-> Trim(lines[k])]
      NonEmpty(l) == l # <<>>
  IN  SelectSeq(trimmedLines, NonEmpty)

\* The position, among the trimmed paragraphs, of the first paragraph of
\* section k.
RECURSIVE SectionStart(_)
SectionStart(k) ==
  IF k = 1 THEN 1 ELSE SectionStart(k - 1) + Len(sections[k - 1].buffer)

\* C1 (as claimed): for T > 0 every chunk's text is at most T long, unless
\* the chunk is one single line (lines are never split).
C1_ChunkWithinTarget ==
  (splitDone /\ targetChars > 0) =>
    \A k \in 1..Len(finalChunks) :
      \/ Len(finalChunks[k].text) <= targetChars
      \/ "\n" \notin Chars(finalChunks[k].text)

\* C2: the non-blank lines of the chunk texts, read in chunk order, are the
\* non-blank lines of the newline-normalized document in the same order
\* (lines compared without their leading and trailing whitespace).
C2_LinesPreserved ==
  splitDone =>
    Flatten([k \in 1..Len(finalChunks) |-> NonBlankLines(finalChunks[k].text)])
      = NonBlankLines(cleanText(text))

C2_Witness ==
  /\ splitDone
  /\ Len(sections) >= 2
  /\ \E k \in 1..Len(sections) : Len(sectionChunks[k]) >= 2

\* C3: a paragraph that matches a header keyword at a line start starts a
\* section when it is shorter than 100 characters (the section's first chunk
\* begins with it), and when it is 100 characters or longer it starts none:
\* it joins the current section, which it can only open as the first
\* paragraph of the document, under the start-of-document title.
C3_HeaderStartsSection ==
  splitDone =>
    LET paras == TrimmedParagraphs(text)
    IN  /\ Flatten([k \in 1..Len(sections) |-> sections[k].buffer]) = paras
        /\ \A i \in 1..Len(paras) :
             HEADER_REGEX_test(paras[i]) =>
               IF Len(paras[i]) < HeaderMaxLen
                 THEN \E k \in 1..Len(sections) :
                        /\ SectionStart(k) = i
                        /\ Len(sectionChunks[k]) >= 1
                        /\ \/ IsPrefix(sectionChunks[k][1].text, paras[i])
                           \/ IsPrefix(paras[i], sectionChunks[k][1].text)
                 ELSE \A k \in 1..Len(sections) :
                        SectionStart(k) = i =>
                          (i = 1 /\ sections[k].title = StartOfPaper)

\* A keyword paragraph of 100 characters or more after a header section.
C3_Witness ==
  /\ splitDone
  /\ \E i \in 2..Len(TrimmedParagraphs(text)) :
       LET para == TrimmedParagraphs(text)[i]
       IN  /\ HEADER_REGEX_test(para)
           /\ Len(para) = HeaderMaxLen
           /\ HEADER_REGEX_test(TrimmedParagraphs(text)[i - 1])
           /\ Len(sections) = 2

\* C4: a section whose content is at most T long yields one chunk; a section
\* that yields one chunk gives it the unmodified section title; a section
\* that yields n >= 2 chunks titles them "<title> (Part 1)" ... "(Part n)".
C4_PartTitles ==
  splitDone =>
    /\ finalChunks = Flatten(sectionChunks)
    /\ \A k \in 1..Len(sections) :
         LET n == Len(sectionChunks[k])
         IN  /\ Len(sections[k].content) <= targetChars => n = 1
             /\ n = 1 => sectionChunks[k][1].title = sections[k].title
             /\ n >= 2 =>
                  \A j \in 1..n :
                    sectionChunks[k][j].title
                      = sections[k].title \o PartSuffix(j)

\* A section split into three parts.
C4_Witness ==
  /\ splitDone
  /\ \E k \in 1..Len(sections) : Len(sectionChunks[k]) = 3

\* C5: a header section's title is the header paragraph without its trailing
\* dots and colons, its content starts with the header paragraph, and its
\* paragraphs are joined by one blank line; the example document splits, at
\* target 3500, into the chunks Abstract and Introduction.
C5_HeaderTitleAndContent ==
  splitDone =>
    /\ \A k \in 1..Len(sections) :
         LET h == sections[k].buffer[1]
             t == sections[k].title
         IN  isHeader(h) =>
               /\ IsPrefix(t, h)
               /\ \A j \in (Len(t) + 1)..Len(h) : h[j] \in {".", ":"}
               /\ t # <<>> /\ t[Len(t)] \notin {".", ":"}
               /\ IsPrefix(h, sections[k].content)
               /\ Split(sections[k].content, <<"\n", "\n">>) = sections[k].buffer
    /\ (text = ExampleDoc /\ targetChars = DefaultTarget) =>
         finalChunks =
           << [title |-> <<"A", "b", "s", "t", "r", "a", "c", "t">>,
               text |-> <<"A", "b", "s", "t", "r", "a", "c", "t">> \o <<"\n", "\n">>
                          \o <<"F", "o", "o", " ", "b", "a", "r", ".">>],
              [title |-> <<"I", "n", "t", "r", "o", "d", "u", "c", "t", "i", "o", "n">>,
               text |-> <<"I", "n", "t", "r", "o", "d", "u", "c", "t", "i", "o", "n">>
                          \o <<"\n", "\n">>
                          \o <<"B", "a", "z", " ", "q", "u", "x", ".">>] >>

\* The example document, and a header whose trailing punctuation is stripped.
C5_Witness ==
  /\ splitDone
  /\ text = ExampleDoc
  /\ targetChars = DefaultTarget
  /\ Len(finalChunks) = 2

C5_WitnessStripped ==
  /\ splitDone
  /\ \E k \in 1..Len(sections) :
       /\ isHeader(sections[k].buffer[1])
       /\ sections[k].title # sections[k].buffer[1]
       /\ Len(sections[k].buffer) >= 2

\* C6: every chunk's title, apart from a part suffix, is its section's title,
\* which is the stripped text of the most recent header paragraph at or
\* before each paragraph of the section, and the start-of-document title
\* when there is none; a document without headers yields only chunks with
\* the start-of-document title, at least two of them when its content is
\* longer than T and has more than one line.
C6_TitleFromLatestHeader ==
  splitDone =>
    LET paras == TrimmedParagraphs(text)
        headers == {i \in 1..Len(paras) : isHeader(paras[i])}
    IN  /\ \A k \in 1..Len(sections) :
             LET first == SectionStart(k)
                 last == first + Len(sections[k].buffer) - 1
             IN  /\ last <= Len(paras)
                 /\ \A i \in first..last :
                      LET before == {j \in headers : j <= i}
                      IN  sections[k].title =
                            IF before = {} THEN StartOfPaper
                            ELSE StripTrailingPunct(paras[SetMax(before)])
                 /\ \A j \in 1..Len(sectionChunks[k]) :
                      \/ sectionChunks[k][j].title = sections[k].title
                      \/ \E n \in 1..Len(sectionChunks[k]) :
                           sectionChunks[k][j].title
                             = sections[k].title \o PartSuffix(n)
        /\ finalChunks = Flatten(sectionChunks)
        /\ (headers = {} /\ paras # <<>>) =>
             /\ Len(sections) = 1
             /\ \A j \in 1..Len(finalChunks) :
                  IsPrefix(StartOfPaper, finalChunks[j].title)
             /\ (Len(sections[1].content) > targetChars
                   /\ "\n" \in Chars(sections[1].content))
                  => Len(finalChunks) >= 2

\* A header section after the start-of-document section, split into parts.
C6_Witness ==
  /\ splitDone
  /\ Len(sections) = 2
  /\ sections[1].title = StartOfPaper
  /\ sections[2].title # StartOfPaper
  /\ Len(sectionChunks[2]) >= 2

C6_WitnessNoHeader ==
  /\ splitDone
  /\ Len(sections) = 1
  /\ sections[1].title = StartOfPaper
  /\ Len(finalChunks) >= 2

\* C7: the empty document, and a document of whitespace and blank lines
\* only, yield no chunk, whatever the target.
C7_EmptyYieldsNothing ==
  (splitDone /\ Chars(text) \subseteq WhiteSpace) => finalChunks = <<>>

C7_Witness ==
  /\ splitDone
  /\ text = <<>>
  /\ targetChars = 0

C7_WitnessBlank ==
  /\ splitDone
  /\ Len(text) >= 2
  /\ Chars(text) \subseteq WhiteSpace

(***************************************************************************)
(* Properties of the pipeline                                              *)
(***************************************************************************)

\* The steps a segment's status may take.
StatusStep(from, to) ==
  \/ to = from
  \/ from = "pending" /\ to = "processing"
  \/ from = "processing" /\ to \in {"success", "error"}

Terminal(status) == status \in {"success", "error"}

\* C8 (as claimed): in every step, the status of every segment that stays in
\* the store keeps its value or moves pending -> processing, processing ->
\* success or processing -> error.
C8_StatusMonotone ==
  [][\A k \in 1..Len(segments) :
       k <= Len(segments') =>
         StatusStep(segments[k].status, segments'[k].status)]_vars

\* Run r logs "All segments processed" in this step.
EmitsCompletion(r) ==
  /\ runs[r].pc \in {"extractRawText", "translateChunk", "generateSpeech"}
  /\ runs'[r] # runs[r]
  /\ "All segments processed" \in runs'[r].log

\* The segment run r is at fails in this step: the inner catch is taken.
SegmentFails(r) ==
  /\ runs[r].pc \in {"translateChunk", "generateSpeech"}
  /\ runs'[r] # runs[r]
  /\ "Failed" \in runs'[r].log

\* C9 (as claimed): when a segment of run r fails, that segment and no other
\* becomes an error, with the failure's message, and the run goes on to the
\* next segment or, past the last one, to its completion; and when run r
\* logs its completion, the segments of the store in success or in error are
\* as many as the chunks of the run.
C9_FailureIsolatedAndCounted ==
  [][\A r \in 1..MaxRuns :
       /\ SegmentFails(r) =>
            LET i == runs[r].i
                segId == runs[r].initialSegments[i + 1].id
            IN  /\ \A k \in 1..Len(segments') :
                     IF segments'[k].id = segId
                       THEN /\ segments'[k].status = "error"
                            /\ segments'[k].error \in TranslateErrors \cup SpeechErrors
                       ELSE /\ k <= Len(segments)
                            /\ segments'[k].status = "error"
                                  => segments[k].status = "error"
                /\ IF i + 1 < Len(runs[r].initialSegments)
                     THEN runs'[r].pc = "translateChunk" /\ runs'[r].i = i + 1
                     ELSE EmitsCompletion(r)
       /\ EmitsCompletion(r) =>
            Cardinality({k \in 1..Len(segments') : Terminal(segments'[k].status)})
              = IF runs[r].pc = "extractRawText" THEN 0
                ELSE Len(runs[r].initialSegments)]_vars

\* C10 (as claimed): at most one segment of the store is processing, and a
\* segment has left pending only if the segment before it is a success or
\* an error.
C10_OneAtATimeInOrder ==
  /\ Cardinality({k \in 1..Len(segments) : segments[k].status = "processing"}) <= 1
  /\ \A k \in 2..Len(segments) :
       segments[k].status # "pending" => Terminal(segments[k - 1].status)

(***************************************************************************)
(* Properties of the playback pointer                                      *)
(***************************************************************************)

\* C11: when the audio of card index ends, the pointer becomes index + 1 if
\* that is an index of the store, whatever the status of that segment, and
\* -1 (none) otherwise; it never becomes a later index.
C11_EndedAdvancesByOne ==
  [][\A index \in 0..(MaxSegments - 1) :
       HandleSegmentEnded(index) =>
         currentPlayingIndex' =
           IF index + 1 < Len(segments) THEN index + 1 ELSE -1]_vars

\* The pointer is at segment 1, which has no audio and is not a success,
\* after the audio of segment 0.
C11_Witness ==
  /\ Len(segments) = 2
  /\ currentPlayingIndex = 1
  /\ HasAudio(0)
  /\ segments[2].status \in {"pending", "processing", "error"}
  /\ segments[2].audioUrl = NoUrl

\* The pointer is none after the audio of the last segment has ended.
C11_WitnessEnd ==
  /\ Len(segments) = 2
  /\ currentPlayingIndex = -1
  /\ HasAudio(1)

LoopStep(r) ==
  /\ runs[r].pc \in {"extractRawText", "translateChunk", "generateSpeech"}
  /\ runs'[r] # runs[r]

\* The segment run r is at becomes a success in this step.
SegmentSucceeds(r) ==
  /\ runs[r].pc = "generateSpeech"
  /\ runs'[r] # runs[r]
  /\ "Ready" \in runs'[r].log

C13_WitnessLater ==
  /\ Len(segments) = 2
  /\ segments[1].status = "error"
  /\ segments[2].status = "success"
  /\ currentPlayingIndex = -1

(***************************************************************************)
(* Properties of runs that are replaced                                    *)
(***************************************************************************)

\* Run r awaits one of its collaborators.
InFlight(r) ==
  runs[r].pc \in {"extractRawText", "translateChunk", "generateSpeech",
                  "generatePodcastScript", "podcastSpeech"}

\* Run r is in flight and was abandoned: a later run has started, or the
\* store was emptied under it by a file selection or a later run.
Abandoned(r) ==
  /\ InFlight(r)
  /\ \/ \E later \in (r + 1)..MaxRuns : runs[later].pc \notin {"idle", "fileToBase64"}
     \/ runs[r].initialSegments # <<>> /\ segments = <<>>

\* C14 (as claimed): when a collaborator call of an abandoned run resolves
\* or rejects, the step changes neither the store, nor the pointer, nor the
\* progress.
C14_AbandonedRunDiscarded ==
  [][\A r \in 1..MaxRuns :
       (Abandoned(r) /\ runs'[r] # runs[r]) =>
         /\ segments' = segments
         /\ currentPlayingIndex' = currentPlayingIndex
         /\ progress' = progress]_vars

\* Run r starts in this step: fileToBase64 has resolved and processLiteralMode
\* or processPodcastMode runs up to its first await.
RunStarts(r) ==
  /\ runs[r].pc = "fileToBase64"
  /\ runs'[r].pc # "fileToBase64"

\* C15 (as claimed): when a run starts, in literal or in podcast mode, the
\* segments of the run before it are discarded: the store is empty once the
\* run has started.
C15_NewRunDiscardsSegments ==
  [][\A r \in 1..MaxRuns : RunStarts(r) => segments' = <<>>]_vars

\* C16 (as claimed): when a run starts, every object URL made for a segment
\* by the runs before it has been released: none is still live.
C16_HandlesReleased ==
  [][\A r \in 1..MaxRuns :
       RunStarts(r) => \A url \in objectURLs' : url[2] < 0]_vars

(***************************************************************************)
(* Properties of the progress and of the segment records                   *)
(***************************************************************************)

\* Run r is in the loop of processLiteralMode, at one of its awaits.
InLoop(r) == runs[r].pc \in {"translateChunk", "generateSpeech"}

\* C17: the progress is null or {current, total} with 1 <= current <= total,
\* and it is set only while a run is in the loop of processLiteralMode: it is
\* null before a run, after a run's completion and after a fatal error.
C17_ProgressWellFormed ==
  progress # NoProgress =>
    /\ 1 <= progress[1].current
    /\ progress[1].current <= progress[1].total
    /\ \E r \in 1..MaxRuns : InLoop(r)

\* The progress is 2 of 2 while the second segment is processed.
C17_Witness ==
  /\ progress = <<[current |-> 2, total |-> 2]>>
  /\ \E r \in 1..MaxRuns : InLoop(r) /\ runs[r].i = 1

\* The progress is null after a run has logged its completion, and after a
\* run has logged a fatal error.
C17_WitnessCleared ==
  /\ progress = NoProgress
  /\ \E r \in 1..MaxRuns : "All segments processed" \in runs[r].log
  /\ \A r \in 1..MaxRuns : ~InFlight(r)

\* The step of run r at extractRawText is fatal for the document: the
\* extraction fails, or the text extracted gives no chunk, and the run ends.
FatalStep(r) ==
  /\ runs[r].pc = "extractRawText"
  /\ runs'[r].pc = "done"

\* C18 (as claimed): a step that is fatal for the document creates no
\* segment, clears the progress, logs the fatal error and does not log the
\* completion.
C18_FatalAborts ==
  [][\A r \in 1..MaxRuns :
       FatalStep(r) =>
         /\ segments' = segments \/ segments' = <<>>
         /\ progress' = NoProgress
         /\ "Critical Error" \in runs'[r].log
         /\ "All segments processed" \notin runs'[r].log]_vars

\* C19: a text of more than 50,000 characters reaches semanticSplit as its
\* first 50,000 characters, with the warning logged; a text of at most
\* 50,000 characters reaches it unchanged, with no warning; in both cases the
\* run goes on to the segmentation.
C19_TruncatedAtLimit ==
  limitDone =>
    IF Len(extracted) > 50000
      THEN /\ Len(limited) = 50000
           /\ IsPrefix(limited, extracted)
           /\ warned
      ELSE /\ limited = extracted
           /\ ~warned

\* The text of 60,000 characters has been truncated.
C19_Witness ==
  /\ limitDone
  /\ Len(extracted) = 60000
  /\ Len(limited) = 50000
  /\ warned

\* A text of exactly 50,000 characters has passed unchanged.
C19_WitnessAtLimit ==
  /\ limitDone
  /\ Len(extracted) = 50000
  /\ limited = extracted
  /\ ~warned

\* C20 (as claimed): every segment of the store has an audioUrl exactly when
\* it is a success, an error message only when it is an error, and a
\* translatedText only when its translation has resolved: it is then a
\* success, an error, or processing with its synthesis awaited.
C20_FieldsMatchStatus ==
  \A k \in 1..Len(segments) :
    LET s == segments[k]
    IN  /\ (s.audioUrl # NoUrl) <=> (s.status = "success")
        /\ s.error # Undefined => s.status = "error"
        /\ s.translatedText # Undefined =>
             \/ s.status \in {"success", "error"}
             \/ /\ s.status = "processing"
                /\ \E r \in 1..MaxRuns :
                     runs[r].pc = "generateSpeech" /\ runs[r].i = k - 1

(***************************************************************************)
(* Properties of the end of a run                                          *)
(***************************************************************************)

\* Run r, in literal mode, returns in this step.
LiteralFinishes(r) ==
  /\ runs[r].pc \in {"extractRawText", "translateChunk", "generateSpeech"}
  /\ runs'[r].pc = "done"

\* C21: a literal run returns only from the step that settles its last
\* segment, or from extractRawText (a fatal error, or no segment at all),
\* and, no other run being in flight, every segment of the store is then a
\* success or an error; the step in which it returns clears the progress and logs the completion
\* unless the error is fatal; the completion is logged in no other step; a
\* run that has returned takes no further step; and, every promise being
\* settled in the end, every run that was started returns.
C21_RunFinishes ==
  /\ [][\A r \in 1..MaxRuns :
          /\ LiteralFinishes(r) =>
               /\ \/ runs[r].pc = "extractRawText"
                  \/ runs[r].i = Len(runs[r].initialSegments) - 1
               /\ (\A other \in 1..MaxRuns \ {r} : ~InFlight(other))
                    => \A k \in 1..Len(segments') : Terminal(segments'[k].status)
               /\ progress' = NoProgress
               /\ ("All segments processed" \in runs'[r].log)
                    <=> ("Critical Error" \notin runs'[r].log)
          /\ (runs'[r] # runs[r] /\ "All segments processed" \in runs'[r].log)
               => LiteralFinishes(r)
          /\ runs[r].pc = "done" => runs'[r] = runs[r]]_vars
  /\ \A r \in 1..MaxRuns : (runs[r].pc # "idle") ~> (runs[r].pc = "done")

\* A literal run has returned after its two segments, with the completion
\* logged and the progress cleared.
C21_Witness ==
  /\ \E r \in 1..MaxRuns :
       /\ runs[r].pc = "done"
       /\ runs[r].mode = "LITERAL"
       /\ "All segments processed" \in runs[r].log
  /\ Len(segments) = 2
  /\ \A k \in 1..2 : Terminal(segments[k].status)
  /\ progress = NoProgress

(***************************************************************************)
(* Properties of the playback                                              *)
(***************************************************************************)

\* The cards whose audio element is playing.
PlayingCards == {p[1] : p \in playing}

\* The pointer is at segment idx, which is shown without audio, and in this
\* step the segment becomes a success with its audio, the pointer staying.
ReadyWhileAwaited(idx) ==
  /\ mode = "LITERAL" /\ mode' = "LITERAL"
  /\ idx < Len(segments) /\ idx < Len(segments')
  /\ currentPlayingIndex = idx /\ currentPlayingIndex' = idx
  /\ segments[idx + 1].audioUrl = NoUrl
  /\ segments'[idx + 1].audioUrl # NoUrl
  /\ segments'[idx + 1].status = "success"

\* C22 (as claimed): when the segment the pointer waits at becomes a success,
\* its audio plays from that step on, with no action of the listener; and an
\* audio that the listener did not start plays only while the pointer is at
\* its segment.
C22_PlaysWhenReady ==
  /\ [][\A idx \in 0..(MaxSegments - 1) :
          ReadyWhileAwaited(idx) => idx \in {p[1] : p \in playing'}]_vars
  /\ [](\A p \in playing : p[2] = "effect" => currentPlayingIndex = p[1])

\* An event of this step that no action of the listener causes: a step of
\* the loop of a run, or the end of an audio that is playing.
AutomaticStep ==
  \/ \E r \in 1..MaxRuns : LoopStep(r)
  \/ \E index \in PlayingCards : HandleSegmentEnded(index)

\* C23 (as claimed): while the pointer is at a segment that is an error, no
\* automatic event moves it: neither a step of a run nor the end of an audio
\* that plays.
C23_StaysAtError ==
  [][(/\ currentPlayingIndex >= 0
      /\ currentPlayingIndex < Len(segments)
      /\ segments[currentPlayingIndex + 1].status = "error"
      /\ AutomaticStep)
       => currentPlayingIndex' = currentPlayingIndex]_vars

\* C24 (as claimed): the pointer is -1 (none) or an index of the store.
C24_PointerValid ==
  \/ currentPlayingIndex = -1
  \/ currentPlayingIndex >= 0 /\ currentPlayingIndex < Len(segments)

\* C25 (as claimed): at most one run, literal or podcast, is in flight: no
\* two runs are between their setIsProcessing(true) and their return.
C25_SingleRunInFlight ==
  Cardinality({r \in 1..MaxRuns : InFlight(r)}) <= 1

(***************************************************************************)
(* Chunks without text                                                     *)
(***************************************************************************)

\* C26 (as claimed): for a target above 0, every chunk semanticSplit returns
\* holds a character that is not whitespace.
C26_NoEmptyChunk ==
  (splitDone /\ targetChars > 0) =>
    \A k \in 1..Len(finalChunks) :
      \E j \in 1..Len(finalChunks[k].text) :
        finalChunks[k].text[j] \notin WhiteSpace

=============================================================================
